---- MODULE Spec2Model ----
(***************************************************************************)
(* A model of the IMQS log package: a leveled logger on top of a rotating  *)
(* file sink (lumberjack), the console streams and a test-capture handle.  *)
(*                                                                         *)
(* The repository holds three revisions of the package.  The variable rev  *)
(* says which one the process runs:                                        *)
(*   "r1"  src/unnamed/part_000   Logger embeds lumberjack.Logger, Log     *)
(*                                dispatches on the file name              *)
(*   "r2"  src/log.go:253-483     Logger holds an io.Writer, Close asserts *)
(*                                io.WriteCloser without the ok form       *)
(*   "r3"  src/log.go:1-251       as r2, plus the package-level Log        *)
(*                                variable and the guarded Close           *)
(*                                                                         *)
(* Byte strings are sequences of one-character strings.  The sinks and the *)
(* clock are the environment: whether a sink write succeeds and what the   *)
(* clock reads are inputs of the action that performs the write.           *)
(***************************************************************************)
EXTENDS Integers, Sequences, FiniteSets, TLC

(***************************************************************************)
(* Bounds of the model.                                                    *)
(***************************************************************************)
\* Logger objects the process allocates (New and NewTesting together).  The
\* application keeps one reference of its own, l, besides the package-level
\* Log: an object neither of them names any more is garbage.
MaxLoggers == 2
\* Largest StripPrefixLen a Forwarder is built with.
MaxStrip == 2
\* Log calls each goroutine of the concurrent specification makes.
MaxGoCalls == 2

(***************************************************************************)
(* Program constants.                                                      *)
(***************************************************************************)
Trace == 0
Debug == 1
Info == 2
Warn == 3
Error == 4
Levels == Trace .. Error

Stdout == "stdout"
Stderr == "stderr"

\* '\n'
NL == "\n"

Revisions == {"r1", "r2", "r3"}

\* The file names New is called with: the two sentinels and one path.
Filenames == {Stdout, Stderr, "app.log"}

\* The messages log calls are made with: empty, without a terminator, ending
\* in one terminator, and ending in two.
Messages == {<<>>, <<"a">>, <<"a", NL>>, <<"a", NL, NL>>}

\* What fmt.Sprintf(format, params...) returns in the calls of Logf.
Formatted == {<<"b">>}

\* The levels a Forwarder is built with: one below and one above the default
\* threshold.
ForwarderLevels == {Debug, Warn}

\* What time.Now().Format(timeFormat) returns, as one token per reading.
Timestamps == {<<"2024-03-11T14:22:05.123456+0200">>}

\* The byte sequences handed to Forwarder.Write.
Payloads == {<<>>, <<"x", "y">>, <<"x", "y", "a">>, <<"x", "y", "a", NL>>}

\* Outcome of a write to the rotating file sink: it succeeds, it fails while
\* opening the file, or it fails on the write itself with the file open.
FileOutcomes == {"ok", "open", "write"}

(***************************************************************************)
(* Pure functions of the package.                                          *)
(***************************************************************************)
levelToName(level) ==
    CASE level = Trace -> <<"T", "r", "a", "c", "e">>
      [] level = Debug -> <<"D", "e", "b", "u", "g">>
      [] level = Info  -> <<"I", "n", "f", "o">>
      [] level = Warn  -> <<"W", "a", "r", "n", "i", "n", "g">>
      [] level = Error -> <<"E", "r", "r", "o", "r">>

\* levelToName(level)[0:1]
Tag(level) == SubSeq(levelToName(level), 1, 1)

AdmittedStrict(level, threshold) == level > threshold

\* if level >= l.Level
Admitted(level, threshold) == level >= threshold

SuffixAlways(msg) == <<NL>>

\* suffix := ""; if len(msg) == 0 || msg[len(msg)-1] != '\n' { suffix = "\n" }
Suffix(msg) ==
    IF Len(msg) = 0 \/ msg[Len(msg)] # NL THEN <<NL>> ELSE <<>>

\* fmt.Sprintf("%v [%v] %v%v", time.Now().Format(timeFormat), tag, msg, suffix)
FormatLine(now, level, msg) ==
    now \o <<" ", "[">> \o Tag(level) \o <<"]", " ">> \o msg \o Suffix(msg)

\* l.testing.Logf("[%v] %v", tag, msg): the suffix is computed and not used
FormatTestLine(level, msg) ==
    <<"[">> \o Tag(level) \o <<"]", " ">> \o msg

(***************************************************************************)
(* Writers.  A writer is [type, writers]: the dynamic type of the io.Writer*)
(* and the sinks it writes to, in order.                                   *)
(***************************************************************************)
NilWriter == [type |-> "nil", writers |-> <<>>]
FileWriter(stream) == [type |-> "File", writers |-> <<stream>>]
Lumberjack == [type |-> "lumberjack", writers |-> <<"file">>]
\* io.MultiWriter(os.Stdout, w)
MultiWriter(w) == [type |-> "multiWriter", writers |-> <<"stdout">> \o w.writers]

MirrorAlways(filename, logToStdout, inDocker) == inDocker \/ logToStdout

\* (l.inDocker || logToStdout) && filename != Stdout
Mirror(filename, logToStdout, inDocker) ==
    (inDocker \/ logToStdout) /\ filename # Stdout

\* The destination New resolves (r2, r3).
ResolveWriter(filename, logToStdout, inDocker) ==
    LET base == IF filename = Stdout THEN FileWriter("stdout")
                ELSE IF filename = Stderr THEN FileWriter("stderr")
                ELSE Lumberjack
    IN  IF Mirror(filename, logToStdout, inDocker) THEN MultiWriter(base) ELSE base

(***************************************************************************)
(* State.                                                                  *)
(***************************************************************************)
VARIABLES
    rev,         \* the revision of the package the process runs
    dockerenv,   \* os.Stat("/.dockerenv") finds the marker file
    Log,         \* the package-level variable Log (r3): 0 is nil, else a Logger
    l,           \* the application's own reference to a Logger: 0 is nil
    heap,        \* the live Logger objects, by address
    nalloc,      \* the Logger objects allocated so far: the addresses in use
    fwd,         \* the Forwarder the application has built, if any
    stdoutOpen,  \* os.Stdout has not been closed
    stderrOpen,  \* os.Stderr has not been closed
    panicked,    \* the process has died of a run-time panic
    last,        \* the call that led to this state and what it did
    gor          \* the goroutines of the concurrent specification

vars == <<rev, dockerenv, Log, l, heap, nalloc, fwd, stdoutOpen, stderrOpen, panicked, last, gor>>

\* A Logger object.  Level, testing, filename, log, shownError and inDocker are
\* the struct's fields.  ljOpen is the state of the lumberjack.Logger it owns
\* (its file handle is open).  printed and failed record history: the
\* diagnostics printed for this Logger, and whether a write whose error the
\* code inspects has failed.
NewLogger(level, testing, filename, log, inDocker) ==
    [Level |-> level, testing |-> testing, filename |-> filename, log |-> log,
     shownError |-> FALSE, inDocker |-> inDocker,
     ljOpen |-> FALSE, printed |-> 0, failed |-> FALSE]

NoForwarder == [set |-> FALSE, StripPrefixLen |-> 0, Level |-> Trace, Target |-> 0]

\* The record of a call: every field but op has this default.
NoCall ==
    [op |-> "none", recv |-> 0, level |-> Trace, msg |-> <<>>, filename |-> "",
     logToStdout |-> FALSE, constructed |-> FALSE, ret |-> 0, writes |-> <<>>,
     calls |-> <<>>, printed |-> 0, n |-> 0, err |-> FALSE, panic |-> FALSE]

Goroutines == {1, 2}

IdleGoroutine == [pc |-> "idle", calls |-> 0]

(***************************************************************************)
(* Sinks.  env gives what the environment does to a write on each sink.    *)
(***************************************************************************)
SinkOK(sink, env) ==
    CASE sink = "stdout" -> env.stdoutOK
      [] sink = "stderr" -> env.stderrOK
      [] sink = "file"   -> env.file = "ok"

RECURSIVE WriteAllIndependent(_, _, _)
WriteAllIndependent(ws, p, env) ==
    IF ws = <<>> THEN <<>>
    ELSE <<[sink |-> Head(ws), bytes |-> p, ok |-> SinkOK(Head(ws), env)]>>
         \o WriteAllIndependent(Tail(ws), p, env)

\* l.log.Write(p).  For one sink it is that sink's Write; for the value of
\* io.MultiWriter it writes to each sink in order and stops at the first
\* write that fails.  The result is the sequence of writes attempted.
RECURSIVE WriteAll(_, _, _)
WriteAll(ws, p, env) ==
    IF ws = <<>> THEN <<>>
    ELSE LET ok == SinkOK(Head(ws), env)
             w  == [sink |-> Head(ws), bytes |-> p, ok |-> ok]
         IN  IF ok THEN <<w>> \o WriteAll(Tail(ws), p, env) ELSE <<w>>

WriteFailed(writes) == \E i \in 1 .. Len(writes) : ~writes[i].ok

\* The lumberjack file handle after the writes: a write that reaches the file
\* opens it unless opening is what failed.
LjOpenAfter(ljOpen, writes, env) ==
    IF \E i \in 1 .. Len(writes) : writes[i].sink = "file"
    THEN (IF env.file = "open" THEN ljOpen ELSE TRUE)
    ELSE ljOpen

\* if err != nil && !l.shownError
ShouldPrint(shownError, err) == err /\ ~shownError

ShownErrorNeverSet(shownError, err) == shownError

\* l.shownError = true, under the condition above
ShownErrorAfter(shownError, err) ==
    IF ShouldPrint(shownError, err) THEN TRUE ELSE shownError

\* The part of Logger.Write (r2, r3) and of Logger.Log (r1) that follows the
\* write to the destination: the error is inspected, the flag set, the
\* diagnostic printed.  The result is the Logger and what the call did.
Checked(o, writes, env) ==
    LET err == WriteFailed(writes)
    IN  [obj |-> [o EXCEPT !.shownError = ShownErrorAfter(@, err),
                           !.printed = @ + (IF ShouldPrint(o.shownError, err) THEN 1 ELSE 0),
                           !.failed = @ \/ err,
                           !.ljOpen = LjOpenAfter(@, writes, env)],
         writes |-> writes,
         printed |-> IF ShouldPrint(o.shownError, err) THEN 1 ELSE 0]

\* os.Stdout.Write([]byte(s)) and os.Stderr.Write([]byte(s)) of r1: the
\* result is dropped.
Unchecked(o, writes) == [obj |-> o, writes |-> writes, printed |-> 0]

\* func (l *Logger) Write(p []byte)
LoggerWrite(o, p, env) == Checked(o, WriteAll(o.log.writers, p, env), env)

\* func (l *Logger) Log(level Level, msg string), on the Logger o of revision r
LogCall(r, o, level, msg, now, env) ==
    IF ~Admitted(level, o.Level) THEN Unchecked(o, <<>>)
    ELSE IF r = "r1"
         THEN IF o.filename = Stdout
                  THEN Unchecked(o, WriteAll(<<"stdout">>, FormatLine(now, level, msg), env))
              ELSE IF o.filename = Stderr
                  THEN Unchecked(o, WriteAll(<<"stderr">>, FormatLine(now, level, msg), env))
              ELSE Checked(o, WriteAll(<<"file">>, FormatLine(now, level, msg), env), env)
         ELSE IF o.testing
                  THEN Unchecked(o, <<[sink |-> "testing",
                                       bytes |-> FormatTestLine(level, msg), ok |-> TRUE]>>)
              ELSE LoggerWrite(o, FormatLine(now, level, msg), env)

\* func (l *Logger) Logf(level Level, format string, params ...interface{}),
\* msg being what fmt.Sprintf(format, params...) returns
LogfCall(r, o, level, msg, now, env) ==
    IF Admitted(level, o.Level) THEN LogCall(r, o, level, msg, now, env)
    ELSE Unchecked(o, <<>>)

(***************************************************************************)
(* The state after the package is loaded: no Logger, both streams open.    *)
(***************************************************************************)
Init ==
    /\ rev \in Revisions
    /\ dockerenv \in (IF rev = "r1" THEN {FALSE} ELSE BOOLEAN)
    /\ Log = 0
    /\ l = 0
    /\ heap = <<>>
    /\ nalloc = 0
    /\ fwd = NoForwarder
    /\ stdoutOpen = TRUE
    /\ stderrOpen = TRUE
    /\ panicked = FALSE
    /\ last = NoCall
    /\ gor = [g \in Goroutines |-> IdleGoroutine]

\* The sinks a log call on o can write to.
SinksOf(o) ==
    IF rev = "r1"
    THEN (IF o.filename \in {Stdout, Stderr} THEN {o.filename} ELSE {"file"})
    ELSE {o.log.writers[i] : i \in 1 .. Len(o.log.writers)}

\* The environments of one call on o at the given level: what each sink the
\* call reaches answers.  A stream answers a write with success only while it
\* is open; a call that is not admitted reaches no sink.
Envs(o, level) ==
    LET sinks == IF Admitted(level, o.Level) THEN SinksOf(o) ELSE {}
    IN  { [stdoutOK |-> so, stderrOK |-> se, file |-> f] :
            so \in (IF "stdout" \in sinks /\ stdoutOpen THEN BOOLEAN ELSE {FALSE}),
            se \in (IF "stderr" \in sinks /\ stderrOpen THEN BOOLEAN ELSE {FALSE}),
            f \in (IF "file" \in sinks THEN FileOutcomes ELSE {"ok"}) }

\* The heap once the application's reference is ref and the package's is
\* global, the object o having been stored at address a (a = 0: none is).
Store(ref, global, a, o) ==
    [x \in {ref, global} \ {0} |-> IF x = a THEN o ELSE heap[x]]

\* The Forwarder goes with the Logger it forwards to.
ForwarderFor(ref, global) ==
    IF fwd.set /\ fwd.Target \in {ref, global} THEN fwd ELSE NoForwarder

\* The receivers of a method call: the application calls through its own
\* reference, which New of r3 sets back to the package-level Logger.
Loggers == {l} \ {0}

ReuseNever(global) == FALSE

\* if Log != nil { return Log }
Reuse(global) == global # 0

\* func New(filename string, logToStdout bool) *Logger, of r3
NewR3(filename, logToStdout) ==
    /\ rev = "r3"
    /\ ~panicked
    /\ IF Reuse(Log)
       THEN /\ l' = Log
            /\ heap' = Store(Log, Log, 0, heap[Log])
            /\ fwd' = ForwarderFor(Log, Log)
            /\ last' = [NoCall EXCEPT !.op = "New", !.filename = filename,
                                      !.logToStdout = logToStdout, !.ret = Log]
            /\ UNCHANGED <<Log, nalloc>>
       ELSE /\ nalloc < MaxLoggers
            /\ nalloc' = nalloc + 1
            /\ l' = nalloc + 1
            /\ Log' = nalloc + 1
            /\ heap' = Store(nalloc + 1, nalloc + 1, nalloc + 1,
                             NewLogger(Info, FALSE, filename,
                                 ResolveWriter(filename, logToStdout, dockerenv), dockerenv))
            /\ fwd' = ForwarderFor(nalloc + 1, nalloc + 1)
            /\ last' = [NoCall EXCEPT !.op = "New", !.filename = filename,
                                      !.logToStdout = logToStdout,
                                      !.constructed = TRUE, !.ret = nalloc + 1]
    /\ UNCHANGED <<rev, dockerenv, stdoutOpen, stderrOpen, panicked, gor>>

\* func New(filename string, logToStdout bool) *Logger, of r2
NewR2(filename, logToStdout) ==
    /\ rev = "r2"
    /\ ~panicked
    /\ nalloc < MaxLoggers
    /\ nalloc' = nalloc + 1
    /\ l' = nalloc + 1
    /\ heap' = Store(nalloc + 1, Log, nalloc + 1,
                     NewLogger(Info, FALSE, filename,
                         ResolveWriter(filename, logToStdout, dockerenv), dockerenv))
    /\ fwd' = ForwarderFor(nalloc + 1, Log)
    /\ last' = [NoCall EXCEPT !.op = "New", !.filename = filename,
                              !.logToStdout = logToStdout,
                              !.constructed = TRUE, !.ret = nalloc + 1]
    /\ UNCHANGED <<rev, dockerenv, Log, stdoutOpen, stderrOpen, panicked, gor>>

\* func New(filename string) *Logger, of r1: the Logger owns a lumberjack.Logger
\* whatever the file name is
NewR1(filename) ==
    /\ rev = "r1"
    /\ ~panicked
    /\ nalloc < MaxLoggers
    /\ nalloc' = nalloc + 1
    /\ l' = nalloc + 1
    /\ heap' = Store(nalloc + 1, Log, nalloc + 1,
                     NewLogger(Info, FALSE, filename, Lumberjack, FALSE))
    /\ last' = [NoCall EXCEPT !.op = "New", !.filename = filename,
                              !.constructed = TRUE, !.ret = nalloc + 1]
    /\ UNCHANGED <<rev, dockerenv, Log, fwd, stdoutOpen, stderrOpen, panicked, gor>>

\* func NewTesting(t *testing.T) *Logger (r2, r3)
NewTesting ==
    /\ rev # "r1"
    /\ ~panicked
    /\ nalloc < MaxLoggers
    /\ nalloc' = nalloc + 1
    /\ l' = nalloc + 1
    /\ heap' = Store(nalloc + 1, Log, nalloc + 1, NewLogger(Info, TRUE, "", NilWriter, FALSE))
    /\ fwd' = ForwarderFor(nalloc + 1, Log)
    /\ last' = [NoCall EXCEPT !.op = "NewTesting", !.constructed = TRUE,
                              !.ret = nalloc + 1]
    /\ UNCHANGED <<rev, dockerenv, Log, stdoutOpen, stderrOpen, panicked, gor>>

\* l.Level = level: the threshold is an exported field the application sets
SetLevel(id, level) ==
    /\ ~panicked
    /\ heap[id].Level # level
    /\ heap' = [heap EXCEPT ![id].Level = level]
    /\ last' = [NoCall EXCEPT !.op = "SetLevel", !.recv = id, !.level = level]
    /\ UNCHANGED <<rev, dockerenv, Log, l, nalloc, fwd, stdoutOpen, stderrOpen,
                   panicked, gor>>

\* l.Log(level, msg), and the per-severity methods l.Trace(msg) ... l.Error(msg)
LogMsg(id, level, msg) ==
    /\ ~panicked
    /\ \E now \in Timestamps, env \in Envs(heap[id], level) :
         LET r == LogCall(rev, heap[id], level, msg, now, env)
         IN  /\ heap' = [heap EXCEPT ![id] = r.obj]
             /\ last' = [NoCall EXCEPT !.op = "Log", !.recv = id, !.level = level,
                                       !.msg = msg, !.writes = r.writes,
                                       !.printed = r.printed]
    /\ UNCHANGED <<rev, dockerenv, Log, l, nalloc, fwd, stdoutOpen, stderrOpen,
                   panicked, gor>>

\* l.Logf(level, format, params...), and l.Tracef ... l.Errorf
Logf(id, level, msg) ==
    /\ ~panicked
    /\ \E now \in Timestamps, env \in Envs(heap[id], level) :
         LET r == LogfCall(rev, heap[id], level, msg, now, env)
         IN  /\ heap' = [heap EXCEPT ![id] = r.obj]
             /\ last' = [NoCall EXCEPT !.op = "Logf", !.recv = id, !.level = level,
                                       !.msg = msg, !.writes = r.writes,
                                       !.printed = r.printed]
    /\ UNCHANGED <<rev, dockerenv, Log, l, nalloc, fwd, stdoutOpen, stderrOpen,
                   panicked, gor>>

WriteCloserOnlyLumberjack(w) == w.type = "lumberjack"

\* l.log.(io.WriteCloser): *os.File and *lumberjack.Logger have a Close method,
\* the value of io.MultiWriter and the nil interface do not
IsWriteCloser(w) == w.type \in {"File", "lumberjack"}

\* wc.Close() on a destination that is an io.WriteCloser: the effect on the
\* Logger's lumberjack handle and on the two streams, and the error returned
\* (closing a stream that is closed already is an error)
CloseWriter(o, w) ==
    IF w.type = "lumberjack"
    THEN [ljOpen |-> FALSE, stdoutOpen |-> stdoutOpen, stderrOpen |-> stderrOpen,
          err |-> FALSE]
    ELSE IF w.writers = <<"stdout">>
    THEN [ljOpen |-> o.ljOpen, stdoutOpen |-> FALSE, stderrOpen |-> stderrOpen,
          err |-> ~stdoutOpen]
    ELSE [ljOpen |-> o.ljOpen, stdoutOpen |-> stdoutOpen, stderrOpen |-> FALSE,
          err |-> ~stderrOpen]

\* func (l *Logger) Close() error
\*   r1: return l.lj.Close()
\*   r2: wc := l.log.(io.WriteCloser); return wc.Close()   (panics when it is none)
\*   r3: if wc, ok := l.log.(io.WriteCloser); ok { return wc.Close() } ...; return nil
Close(id) ==
    /\ ~panicked
    /\ LET o == heap[id]
           c == CloseWriter(o, o.log)
       IN  IF rev = "r1" \/ IsWriteCloser(o.log)
           THEN /\ heap' = [heap EXCEPT ![id].ljOpen = c.ljOpen]
                /\ stdoutOpen' = c.stdoutOpen
                /\ stderrOpen' = c.stderrOpen
                /\ panicked' = FALSE
                /\ last' = [NoCall EXCEPT !.op = "Close", !.recv = id, !.err = c.err]
           ELSE /\ heap' = heap
                /\ panicked' = (rev = "r2")
                /\ last' = [NoCall EXCEPT !.op = "Close", !.recv = id,
                                          !.panic = (rev = "r2")]
                /\ UNCHANGED <<stdoutOpen, stderrOpen>>
    /\ UNCHANGED <<rev, dockerenv, Log, l, nalloc, fwd, gor>>

\* func NewForwarder(stripPrefixLen int, level Level, target *Logger) *Forwarder
NewForwarder(strip, level, target) ==
    /\ rev # "r1"
    /\ ~panicked
    /\ fwd' = [set |-> TRUE, StripPrefixLen |-> strip, Level |-> level, Target |-> target]
    /\ last' = [NoCall EXCEPT !.op = "NewForwarder", !.recv = target, !.level = level,
                              !.n = strip]
    /\ UNCHANGED <<rev, dockerenv, Log, l, heap, nalloc, stdoutOpen, stderrOpen,
                   panicked, gor>>

ForwardsFrom(p, strip) == Len(p) >= strip

\* if len(p) > f.StripPrefixLen
Forwards(p, strip) == Len(p) > strip

\* string(p[f.StripPrefixLen:])
Strip(p, strip) == SubSeq(p, strip + 1, Len(p))

\* func (f *Forwarder) Write(p []byte) (n int, err error)
ForwarderWrite(p) ==
    /\ fwd.set
    /\ ~panicked
    /\ IF Forwards(p, fwd.StripPrefixLen)
       THEN \E now \in Timestamps, env \in Envs(heap[fwd.Target], fwd.Level) :
              LET msg == Strip(p, fwd.StripPrefixLen)
                  r   == LogCall(rev, heap[fwd.Target], fwd.Level, msg, now, env)
              IN  /\ heap' = [heap EXCEPT ![fwd.Target] = r.obj]
                  /\ last' = [NoCall EXCEPT !.op = "Forward", !.recv = fwd.Target,
                                !.level = fwd.Level, !.msg = p,
                                !.calls = <<[recv |-> fwd.Target, level |-> fwd.Level,
                                             msg |-> msg]>>,
                                !.writes = r.writes, !.printed = r.printed,
                                !.n = Len(p), !.err = FALSE]
       ELSE /\ heap' = heap
            /\ last' = [NoCall EXCEPT !.op = "Forward", !.recv = fwd.Target,
                          !.level = fwd.Level, !.msg = p, !.n = Len(p), !.err = FALSE]
    /\ UNCHANGED <<rev, dockerenv, Log, l, nalloc, fwd, stdoutOpen, stderrOpen,
                   panicked, gor>>

(***************************************************************************)
(* Spec: the constructors, the threshold, the log calls and Close, called  *)
(* one after the other.                                                    *)
(***************************************************************************)
Next ==
    \/ \E f \in Filenames, m \in BOOLEAN : NewR3(f, m)
    \/ \E f \in Filenames, m \in BOOLEAN : NewR2(f, m)
    \/ \E f \in Filenames : NewR1(f)
    \/ NewTesting
    \/ \E id \in Loggers, lv \in Levels : SetLevel(id, lv)
    \/ \E id \in Loggers, lv \in Levels, m \in Messages : LogMsg(id, lv, m)
    \/ \E id \in Loggers, lv \in Levels, m \in Formatted : Logf(id, lv, m)
    \/ \E id \in Loggers : Close(id)

Spec == Init /\ [][Next]_vars

(***************************************************************************)
(* SpecForward: a Forwarder in front of a Logger of r2 or r3.              *)
(***************************************************************************)
InitForward == Init /\ rev # "r1"

NextForward ==
    \/ \E f \in Filenames, m \in BOOLEAN : NewR3(f, m)
    \/ \E f \in Filenames, m \in BOOLEAN : NewR2(f, m)
    \/ NewTesting
    \/ \E id \in Loggers, lv \in Levels : SetLevel(id, lv)
    \/ \E s \in 0 .. MaxStrip, lv \in ForwarderLevels, t \in Loggers : NewForwarder(s, lv, t)
    \/ \E p \in Payloads : ForwarderWrite(p)

SpecForward == InitForward /\ [][NextForward]_vars

(***************************************************************************)
(* SpecConcurrent: two goroutines log to one Logger that writes to a file, *)
(* with no synchronization of their own.  The Logger has none either: the  *)
(* write to the destination is one step (lumberjack and os.File lock), the *)
(* read of shownError, the store to it and the Printf are steps of their   *)
(* own, which the scheduler interleaves.                                   *)
(***************************************************************************)
InitConcurrent ==
    /\ rev \in Revisions
    /\ dockerenv = FALSE
    /\ Log = (IF rev = "r3" THEN 1 ELSE 0)
    /\ l = 1
    /\ nalloc = 1
    /\ \E m \in BOOLEAN :
         heap = <<NewLogger(Info, FALSE, "app.log",
                      IF rev = "r1" THEN Lumberjack ELSE ResolveWriter("app.log", m, FALSE),
                      FALSE)>>
    /\ fwd = NoForwarder
    /\ stdoutOpen = TRUE
    /\ stderrOpen = TRUE
    /\ panicked = FALSE
    /\ last = [NoCall EXCEPT !.op = "New", !.filename = "app.log",
                             !.constructed = TRUE, !.ret = 1]
    /\ gor = [g \in Goroutines |-> IdleGoroutine]

\* l.Log(level, msg) is called: if level >= l.Level { ... s := fmt.Sprintf(...)
GoLog(g, level) ==
    /\ gor[g].pc = "idle"
    /\ gor[g].calls < MaxGoCalls
    /\ gor' = [gor EXCEPT ![g].calls = @ + 1,
                          ![g].pc = IF Admitted(level, heap[l].Level) THEN "write" ELSE "idle"]
    /\ last' = [NoCall EXCEPT !.op = "GoLog", !.recv = l, !.level = level]
    /\ UNCHANGED <<rev, dockerenv, Log, l, heap, nalloc, fwd, stdoutOpen, stderrOpen,
                   panicked>>

\* n, err = l.log.Write(p)  (r1: _, err := l.lj.Write([]byte(s)))
GoWrite(g) ==
    /\ gor[g].pc = "write"
    /\ \E now \in Timestamps, env \in Envs(heap[l], Error) :
         LET dest   == IF rev = "r1" THEN <<"file">> ELSE heap[l].log.writers
             writes == WriteAll(dest, FormatLine(now, Error, <<"a">>), env)
         IN  /\ heap' = [heap EXCEPT ![l].failed = @ \/ WriteFailed(writes),
                                     ![l].ljOpen = LjOpenAfter(@, writes, env)]
             /\ gor' = [gor EXCEPT ![g].pc = IF WriteFailed(writes) THEN "check" ELSE "idle"]
             /\ last' = [NoCall EXCEPT !.op = "GoWrite", !.recv = l, !.writes = writes]
    /\ UNCHANGED <<rev, dockerenv, Log, l, nalloc, fwd, stdoutOpen, stderrOpen, panicked>>

\* if err != nil && !l.shownError: the read of the flag
GoCheck(g) ==
    /\ gor[g].pc = "check"
    /\ gor' = [gor EXCEPT ![g].pc = IF ShouldPrint(heap[l].shownError, TRUE)
                                    THEN "set" ELSE "idle"]
    /\ last' = [NoCall EXCEPT !.op = "GoCheck", !.recv = l]
    /\ UNCHANGED <<rev, dockerenv, Log, l, heap, nalloc, fwd, stdoutOpen, stderrOpen,
                   panicked>>

\* l.shownError = true
GoSet(g) ==
    /\ gor[g].pc = "set"
    /\ heap' = [heap EXCEPT ![l].shownError = TRUE]
    /\ gor' = [gor EXCEPT ![g].pc = "print"]
    /\ last' = [NoCall EXCEPT !.op = "GoSet", !.recv = l]
    /\ UNCHANGED <<rev, dockerenv, Log, l, nalloc, fwd, stdoutOpen, stderrOpen, panicked>>

\* fmt.Printf("Unable to write to log file %v: %v. This error will not be shown again.\n", ...)
GoPrint(g) ==
    /\ gor[g].pc = "print"
    /\ heap' = [heap EXCEPT ![l].printed = @ + 1]
    /\ gor' = [gor EXCEPT ![g].pc = "idle"]
    /\ last' = [NoCall EXCEPT !.op = "GoPrint", !.recv = l, !.printed = 1]
    /\ UNCHANGED <<rev, dockerenv, Log, l, nalloc, fwd, stdoutOpen, stderrOpen, panicked>>

NextConcurrent ==
    \/ \E g \in Goroutines, lv \in {Debug, Error} : GoLog(g, lv)
    \/ \E g \in Goroutines : GoWrite(g)
    \/ \E g \in Goroutines : GoCheck(g)
    \/ \E g \in Goroutines : GoSet(g)
    \/ \E g \in Goroutines : GoPrint(g)

SpecConcurrent == InitConcurrent /\ [][NextConcurrent]_vars

(***************************************************************************)
(* Properties.  A state predicate over last speaks of the call that led to *)
(* the state, and of the state the call left.                              *)
(***************************************************************************)
IsLogCall(c) == c.op \in {"Log", "Logf"}

\* The line a call writes: the bytes of its first write.
Line(c) == c.writes[1].bytes

\* The number of line terminators a byte string ends in.
RECURSIVE TrailingTerminators(_)
TrailingTerminators(b) ==
    IF Len(b) = 0 \/ b[Len(b)] # NL THEN 0
    ELSE 1 + TrailingTerminators(SubSeq(b, 1, Len(b) - 1))

\* The length of what precedes the message in a formatted line: the
\* timestamp, a space, the bracketed tag, a space.
HeaderLen == 6

\* The display tag of a level.
TagLetter(level) == <<"T", "D", "I", "W", "E">>[level + 1]

\* C1: a log call (Log or Logf, hence every per-severity method) at a level
\* strictly below the Logger's threshold writes to no sink, prints nothing and
\* leaves every Logger, both streams and the package-level variable as they
\* were; a call at or above the threshold hands exactly one formatted line to
\* the destination: at least one sink is written, no sink twice, and every
\* write carries the same line.
C1_ThresholdFilter ==
    [][ IsLogCall(last') =>
          LET o == heap[last'.recv]
              w == last'.writes
          IN  IF last'.level < o.Level
              THEN /\ w = <<>>
                   /\ last'.printed = 0
                   /\ heap' = heap
                   /\ <<Log, l, stdoutOpen, stderrOpen, panicked>>' =
                          <<Log, l, stdoutOpen, stderrOpen, panicked>>
              ELSE /\ Len(w) >= 1
                   /\ \A i, j \in 1 .. Len(w) :
                        /\ w[i].bytes = w[1].bytes
                        /\ (i # j => w[i].sink # w[j].sink)
                   /\ IF o.testing
                      THEN w[1].bytes = <<"[", TagLetter(last'.level), "]", " ">> \o last'.msg
                      ELSE /\ SubSeq(w[1].bytes, 2, HeaderLen) =
                                <<" ", "[", TagLetter(last'.level), "]", " ">>
                           /\ SubSeq(w[1].bytes, HeaderLen + 1, HeaderLen + Len(last'.msg)) =
                                last'.msg
                   /\ heap'[last'.recv].Level = o.Level
                   /\ heap'[last'.recv].log = o.log ]_vars

\* C1's case: a call at Warn has been made on a Logger that fans out to the
\* console and the file, whose threshold is above Warn, and wrote nothing.
C1_Witness ==
    /\ IsLogCall(last)
    /\ last.level < heap[last.recv].Level
    /\ last.level = Warn
    /\ heap[last.recv].log.type = "multiWriter"
    /\ last.writes = <<>>

\* C2 as stated: the line an admitted call writes on a production-mode Logger
\* ends in exactly one line terminator, whatever the message ended in.
C2_OneTerminator ==
    (IsLogCall(last) /\ last.writes # <<>> /\ last.writes[1].sink # "testing")
        => TrailingTerminators(Line(last)) = 1

\* C2 amended: the line an admitted call writes on a production-mode Logger
\* is the header, the message, and one terminator exactly when the message is
\* empty or does not end in one: it ends in one terminator when the message
\* ended in none, and in as many as the message ended in otherwise.
C2_TerminatorAppendedOnce ==
    (IsLogCall(last) /\ last.writes # <<>> /\ last.writes[1].sink # "testing")
        => LET b == Line(last)
               m == last.msg
               k == TrailingTerminators(m)
           IN  /\ SubSeq(b, HeaderLen + 1, Len(b)) = m \o (IF k = 0 THEN <<NL>> ELSE <<>>)
               /\ TrailingTerminators(b) = (IF k = 0 THEN 1 ELSE k)

\* C2's case: a message that ends in two terminators has been written, and
\* the line ends in two.
C2_Witness ==
    /\ last.op = "Log"
    /\ last.msg = <<"a", NL, NL>>
    /\ last.writes # <<>>
    /\ last.writes[1].sink = "file"
    /\ TrailingTerminators(Line(last)) = 2

\* C3 as stated: New (r2, r3) resolves the stdout sentinel to standard output
\* alone and the stderr sentinel to standard error alone whatever the flags, a
\* path with both flags false to the file sink alone, and a path with either
\* flag true to the fan-out of standard output and the file sink.
C3_Resolution ==
    (last.op = "New" /\ last.constructed /\ rev # "r1")
        => heap[last.ret].log =
             (IF last.filename = Stdout
                 THEN [type |-> "File", writers |-> <<"stdout">>]
              ELSE IF last.filename = Stderr
                 THEN [type |-> "File", writers |-> <<"stderr">>]
              ELSE IF last.logToStdout \/ dockerenv
                 THEN [type |-> "multiWriter", writers |-> <<"stdout", "file">>]
              ELSE [type |-> "lumberjack", writers |-> <<"file">>])

\* C3 amended: as stated, but the stderr sentinel gives standard error alone
\* only with both flags false; with either flag true it gives the fan-out of
\* standard output and standard error.
C3_ResolutionStderrMirrored ==
    (last.op = "New" /\ last.constructed /\ rev # "r1")
        => heap[last.ret].log =
             (IF last.filename = Stdout
                 THEN [type |-> "File", writers |-> <<"stdout">>]
              ELSE IF last.filename = Stderr
                 THEN (IF last.logToStdout \/ dockerenv
                       THEN [type |-> "multiWriter", writers |-> <<"stdout", "stderr">>]
                       ELSE [type |-> "File", writers |-> <<"stderr">>])
              ELSE IF last.logToStdout \/ dockerenv
                 THEN [type |-> "multiWriter", writers |-> <<"stdout", "file">>]
              ELSE [type |-> "lumberjack", writers |-> <<"file">>])

\* C3's case: New has built a Logger for the stderr sentinel with
\* logToStdout set, and its destination fans out to both streams.
C3_Witness ==
    /\ last.op = "New"
    /\ last.constructed
    /\ rev = "r2"
    /\ last.filename = Stderr
    /\ last.logToStdout
    /\ ~dockerenv
    /\ heap[last.ret].log.writers = <<"stdout", "stderr">>

\* A write of the call whose error the code inspects has failed: in r1 the
\* results of the console writes are dropped.
InspectedFailure(c) ==
    \E i \in 1 .. Len(c.writes) :
        ~c.writes[i].ok /\ (rev = "r1" => c.writes[i].sink = "file")

\* C4: in any sequence of calls on a Logger, the diagnostic is printed once,
\* by the call whose write is the first to fail, and never again: shownError
\* is false as long as no write has failed, true from the first failure on,
\* and later failing writes print nothing.
C4_DiagnosticOnce ==
    [][ \A id \in DOMAIN heap' :
          /\ heap'[id].shownError = heap'[id].failed
          /\ heap'[id].printed = (IF heap'[id].failed THEN 1 ELSE 0)
          /\ id \in DOMAIN heap =>
               /\ heap[id].shownError => heap'[id].shownError
               /\ heap'[id].printed >= heap[id].printed
               /\ (IsLogCall(last') /\ last'.recv = id) =>
                    /\ last'.printed = heap'[id].printed - heap[id].printed
                    /\ last'.printed =
                         (IF InspectedFailure(last') /\ ~heap[id].shownError THEN 1 ELSE 0)
                    /\ heap'[id].shownError =
                         (heap[id].shownError \/ InspectedFailure(last')) ]_vars

\* C4's case: a second write to the file sink has failed on a Logger that
\* printed its diagnostic before, and nothing was printed.
C4_Witness ==
    /\ IsLogCall(last)
    /\ \E i \in 1 .. Len(last.writes) :
         last.writes[i].sink = "file" /\ ~last.writes[i].ok
    /\ last.printed = 0
    /\ heap[last.recv].printed = 1
    /\ heap[last.recv].shownError

\* C5: however the log calls of several goroutines on one Logger interleave,
\* at most one diagnostic is printed for that Logger.
C5_AtMostOneDiagnostic ==
    \A id \in DOMAIN heap : heap[id].printed <= 1

\* p without its first n bytes.
Drop(p, n) == [i \in 1 .. (Len(p) - n) |-> p[i + n]]

\* C6: Forwarder.Write(p) returns (len(p), nil) in every case; with
\* len(p) <= StripPrefixLen the target gets no call and nothing is written;
\* otherwise the target gets exactly one Log call, at the Forwarder's level,
\* with p less its first StripPrefixLen bytes as the message.
C6_ForwarderWrite ==
    last.op = "Forward" =>
        /\ last.n = Len(last.msg)
        /\ ~last.err
        /\ IF Len(last.msg) <= fwd.StripPrefixLen
           THEN last.calls = <<>> /\ last.writes = <<>> /\ last.printed = 0
           ELSE /\ Len(last.calls) = 1
                /\ last.calls[1].recv = fwd.Target
                /\ last.calls[1].level = fwd.Level
                /\ last.calls[1].msg = Drop(last.msg, fwd.StripPrefixLen)

\* C6's case: a Forwarder with a prefix of two bytes has forwarded a longer
\* input, the target's write to the file sink failed, and Write reported the
\* whole input as consumed.
C6_Witness ==
    /\ last.op = "Forward"
    /\ fwd.StripPrefixLen = 2
    /\ Len(last.msg) = 4
    /\ Len(last.calls) = 1
    /\ last.calls[1].msg = <<"a", NL>>
    /\ \E i \in 1 .. Len(last.writes) :
         last.writes[i].sink = "file" /\ ~last.writes[i].ok
    /\ last.n = 4

\* The Logger was built by New for the stdout or the stderr sentinel.
ForSentinel(o) == ~o.testing /\ o.filename \in {Stdout, Stderr}

\* C7 as stated: after Close on a Logger built for the stdout or the stderr
\* sentinel, both standard streams of the process are open.
C7_StreamsStayOpen ==
    (last.op = "Close" /\ ForSentinel(heap[last.recv])) => (stdoutOpen /\ stderrOpen)

\* C7 amended: Close on a Logger built for a sentinel closes the stream that
\* is its destination (os.Stdout for stdout, os.Stderr for stderr) and leaves
\* the other stream as it was.  It leaves both as they were only where the
\* destination is no *os.File: in r1, where Close closes the embedded
\* lumberjack.Logger, and for the stderr sentinel mirrored to standard output,
\* where the destination is the value of io.MultiWriter (r3 returns nil, r2
\* panics on the type assertion).
C7_CloseClosesStream ==
    [][ (last'.op = "Close" /\ ForSentinel(heap[last'.recv])) =>
          LET o == heap[last'.recv]
          IN  IF rev # "r1" /\ o.log.type = "File"
              THEN /\ ~panicked'
                   /\ IF o.filename = Stdout
                      THEN ~stdoutOpen' /\ stderrOpen' = stderrOpen
                      ELSE ~stderrOpen' /\ stdoutOpen' = stdoutOpen
              ELSE /\ stdoutOpen' = stdoutOpen
                   /\ stderrOpen' = stderrOpen
                   /\ panicked' = (rev = "r2") ]_vars

\* C7's case: Close has been called on a Logger of r3 built for the stdout
\* sentinel, and standard output is closed.
C7_Witness ==
    /\ last.op = "Close"
    /\ rev = "r3"
    /\ heap[last.recv].filename = Stdout
    /\ ~last.err
    /\ ~stdoutOpen
    /\ stderrOpen

\* An admitted call on a Logger whose destination is the fan-out of standard
\* output and the file sink.
FanOutCall(c) ==
    /\ IsLogCall(c)
    /\ rev # "r1"
    /\ heap[c.recv].log = [type |-> "multiWriter", writers |-> <<"stdout", "file">>]
    /\ c.level >= heap[c.recv].Level

\* C8 as stated: on the fan-out of standard output and the file sink every
\* admitted line is written to both sinks, the console first and the file
\* second, also when the console write fails.
C8_BothSinksAlways ==
    FanOutCall(last) =>
        /\ Len(last.writes) = 2
        /\ last.writes[1].sink = "stdout"
        /\ last.writes[2].sink = "file"
        /\ last.writes[2].bytes = last.writes[1].bytes

\* C8 amended: on the fan-out every admitted line is written to the console
\* first and, when that write succeeds, to the file second; when the console
\* write fails the file write is not attempted, and the failure is the one
\* Logger.Write answers with its one-time diagnostic.
C8_ConsoleThenFile ==
    FanOutCall(last) =>
        /\ Len(last.writes) >= 1
        /\ last.writes[1].sink = "stdout"
        /\ IF last.writes[1].ok
           THEN /\ Len(last.writes) = 2
                /\ last.writes[2].sink = "file"
                /\ last.writes[2].bytes = last.writes[1].bytes
           ELSE /\ Len(last.writes) = 1
                /\ heap[last.recv].shownError

\* C8's case: the console write of an admitted line has failed on a fan-out
\* Logger.
C8_Witness ==
    /\ FanOutCall(last)
    /\ ~last.writes[1].ok
    /\ last.printed = 1

\* C9: Close on a Logger built by New for a file path releases the file
\* handle of the rotating file sink and does not panic, whether the
\* destination is the file sink alone or the fan-out.
C9_CloseReleasesFile ==
    (last.op = "Close" /\ ~heap[last.recv].testing
        /\ heap[last.recv].filename \notin {Stdout, Stderr})
        => (~panicked /\ ~heap[last.recv].ljOpen)

\* C10: in r3 the first call of New builds the Logger and stores it in the
\* package-level Log; every later call, whatever its arguments and whatever
\* has been called on the Logger since, builds nothing and returns that same
\* Logger, unchanged.
C10_NewOnce ==
    [][ (rev = "r3" /\ last'.op = "New") =>
          IF Log = 0
          THEN /\ last'.constructed
               /\ Log' # 0
               /\ Log' \notin DOMAIN heap
               /\ last'.ret = Log'
               /\ heap'[Log'].filename = last'.filename
          ELSE /\ ~last'.constructed
               /\ last'.ret = Log
               /\ Log' = Log
               /\ heap'[Log] = heap[Log]
               /\ <<stdoutOpen, stderrOpen>>' = <<stdoutOpen, stderrOpen>> ]_vars

\* C10's case: New has been called again with another file name and
\* logToStdout set, after Close on the Logger built for the stdout sentinel,
\* and has returned the Logger of the first call.
C10_Witness ==
    /\ rev = "r3"
    /\ last.op = "New"
    /\ ~last.constructed
    /\ last.filename = "app.log"
    /\ last.logToStdout
    /\ last.ret = Log
    /\ heap[Log].filename = Stdout
    /\ ~stdoutOpen

====
